---- MODULE Spec2Model ----
(***************************************************************************)
(* Model of the catalog tools of thecybercerts:                            *)
(*   scripts/import_from_original.py  (Importer)                           *)
(*   scripts/validate_catalog.py      (Validator)                          *)
(*   scripts/rebuild_index.py         (Index Rebuilder)                    *)
(* Text whose characters the code inspects (ids, file names, labels, urls, *)
(* dates) is a sequence of one-character strings; enum values that the     *)
(* code only compares for equality are TLA+ strings.                       *)
(***************************************************************************)
EXTENDS Integers, Sequences, FiniteSets

VARIABLES
    \* ---- Validator (validate_catalog.py main) ----
    certs_dir,      \* data/certifications: file name -> decoded YAML payload
    files,          \* sorted(CERTS_DIR.glob("*.yaml"))
    errors,         \* the accumulated list of violation messages
    seen_ids,       \* ids met so far in the scan
    vidx,           \* position of the for loop over files
    vpc,            \* "start" | "loop" | "report" | "done" | "raised"
    exit_code,      \* process exit status (-1 while running)
    stdout,         \* violation messages printed
    \* ---- Importer (import_from_original.py main) ----
    source_data,    \* raw records not yet consumed by the comprehension
    target_dir,     \* data/certifications: file name -> record written
    index_file,     \* data/index.yaml ("certifications", "domains", "sub_areas")
    used_ids,       \* the shared used-ids set
    certifications, \* records built so far, in order
    filenames,      \* names appended by the write loop
    ipc,            \* "start" | "build" | "extras" | "write" | "index" | "done" | "raised"
    \* ---- Index Rebuilder (rebuild_index.py main) ----
    rb_files,       \* files: the sorted names of CERTS_DIR.glob("*.yaml")
    rb_domains,     \* domains: the set collected by the loop
    rb_sub_areas,   \* sub_areas: the set collected by the loop
    rb_idx,         \* position of the for loop over files
    rb_pc,          \* "start" | "loop" | "done" | "raised"
    rb_runs,        \* runs of the Rebuilder completed so far
    \* ---- a function of the Importer called on its own ----
    fn,             \* the function under call
    arg,            \* its input
    ret             \* the values returned so far, in order

vvars == <<certs_dir, files, errors, seen_ids, vidx, vpc, exit_code, stdout>>
ivars == <<source_data, target_dir, index_file, used_ids, certifications, filenames, ipc>>
rvars == <<rb_files, rb_domains, rb_sub_areas, rb_idx, rb_pc, rb_runs>>
pvars == <<fn, arg, ret>>
vars == <<certs_dir, files, errors, seen_ids, vidx, vpc, exit_code, stdout,
          source_data, target_dir, index_file, used_ids, certifications, filenames, ipc,
          rb_files, rb_domains, rb_sub_areas, rb_idx, rb_pc, rb_runs, fn, arg, ret>>

----------------------------------------------------------------------------
(* Characters and strings *)

\* the characters of the model in code-point order
CodePoints ==
    <<" ", "$", "+", "-", ".", "/",
      "0", "1", "2", "3", "4", "5", "6", "7", "8", "9", ":",
      "A", "B", "C", "D", "E", "F", "G", "H", "I", "J", "K", "L", "M",
      "N", "O", "P", "Q", "R", "S", "T", "U", "V", "W", "X", "Y", "Z",
      "a", "b", "c", "d", "e", "f", "g", "h", "i", "j", "k", "l", "m",
      "n", "o", "p", "q", "r", "s", "t", "u", "v", "w", "x", "y", "z",
      "|", "EUR">>     \* "EUR" stands for the one character U+20AC (euro sign)

Ord(c) == CHOOSE i \in 1..Len(CodePoints) : CodePoints[i] = c

Digits == <<"0", "1", "2", "3", "4", "5", "6", "7", "8", "9">>
UpperCase == <<"A", "B", "C", "D", "E", "F", "G", "H", "I", "J", "K", "L", "M",
               "N", "O", "P", "Q", "R", "S", "T", "U", "V", "W", "X", "Y", "Z">>
LowerCase == <<"a", "b", "c", "d", "e", "f", "g", "h", "i", "j", "k", "l", "m",
               "n", "o", "p", "q", "r", "s", "t", "u", "v", "w", "x", "y", "z">>

IsDigit(c) == \E i \in 1..10 : Digits[i] = c
DigitVal(c) == (CHOOSE i \in 1..10 : Digits[i] = c) - 1
IsUpper(c) == \E i \in 1..26 : UpperCase[i] = c
IsLowerAlnum(c) == IsDigit(c) \/ \E i \in 1..26 : LowerCase[i] = c
\* str.isspace() for the whitespace of the model: space, tab, newline
IsSpace(c) == c \in {" ", "\t", "\n"}

LowerChar(c) == IF IsUpper(c) THEN LowerCase[CHOOSE i \in 1..26 : UpperCase[i] = c] ELSE c
\* str.lower()
Lower(s) == [i \in 1..Len(s) |-> LowerChar(s[i])]

RECURSIVE LStrip(_)
LStrip(s) == IF s # << >> /\ IsSpace(Head(s)) THEN LStrip(Tail(s)) ELSE s
RECURSIVE RStrip(_)
RStrip(s) == IF s # << >> /\ IsSpace(s[Len(s)]) THEN RStrip(SubSeq(s, 1, Len(s) - 1)) ELSE s
\* str.strip()
Strip(s) == RStrip(LStrip(s))

StartsWith(s, p) == Len(s) >= Len(p) /\ SubSeq(s, 1, Len(p)) = p
\* needle in hay
Contains(hay, needle) ==
    \E i \in 1..(Len(hay) - Len(needle) + 1) : SubSeq(hay, i, i + Len(needle) - 1) = needle
HasDigit(s) == \E i \in 1..Len(s) : IsDigit(s[i])
HasChar(s, c) == \E i \in 1..Len(s) : s[i] = c

\* s < t in the order sorted() uses on str
LexLess(s, t) ==
    \E k \in 1..(Len(t)) :
        /\ k <= Len(s) + 1
        /\ \A j \in 1..(k - 1) : s[j] = t[j]
        /\ \/ k = Len(s) + 1
           \/ (k <= Len(s) /\ Ord(s[k]) < Ord(t[k]))

RECURSIVE Sorted(_)
\* sorted(S) for a set of strings
Sorted(S) ==
    IF S = {} THEN << >>
    ELSE LET m == CHOOSE x \in S : \A y \in S : x = y \/ LexLess(x, y)
         IN <<m>> \o Sorted(S \ {m})

RECURSIVE DecDigits(_)
DecDigits(n) == IF n < 10 THEN <<Digits[n + 1]>> ELSE DecDigits(n \div 10) \o <<Digits[(n % 10) + 1]>>
\* str(n) for an int
IntToStr(n) == IF n < 0 THEN <<"-">> \o DecDigits(0 - n) ELSE DecDigits(n)

RECURSIVE DigitsToNat(_)
DigitsToNat(s) == IF s = << >> THEN 0 ELSE 10 * DigitsToNat(SubSeq(s, 1, Len(s) - 1)) + DigitVal(s[Len(s)])

YamlExt == <<".","y","a","m","l">>
\* Path.stem of a "*.yaml" name
Stem(name) == SubSeq(name, 1, Len(name) - Len(YamlExt))
SeqToSet(s) == {s[i] : i \in 1..Len(s)}

----------------------------------------------------------------------------
(* Python values of a decoded YAML document *)

VStr(s) == [t |-> "str", v |-> s]
VInt(n) == [t |-> "int", v |-> n]
VBool(b) == [t |-> "bool", v |-> b]
VList(s) == [t |-> "list", v |-> s]
VDict(f) == [t |-> "dict", v |-> f]
None == [t |-> "none", v |-> 0]
\* a file yaml.safe_load cannot parse
Malformed == [t |-> "malformed", v |-> 0]

\* payload.get(key, default)
Get(p, key, default) == IF key \in DOMAIN p THEN p[key] ELSE default
\* hash(x) raises TypeError
Unhashable(x) == x.t \in {"list", "dict"}
\* isinstance(x, int): bool is a subclass of int
IsInstanceInt(x) == x.t \in {"int", "bool"}
\* x in S for a set S of str
InStrSet(x, S) == x.t = "str" /\ x.v \in S
\* str(x) for the value kinds the model feeds to str()
PyStr(x) ==
    CASE x.t = "str" -> x.v
      [] x.t = "none" -> <<"N","o","n","e">>
      [] x.t = "int" -> IntToStr(x.v)
      [] x.t = "bool" -> IF x.v THEN <<"T","r","u","e">> ELSE <<"F","a","l","s","e">>
      [] OTHER -> <<"?">>

\* int(x) succeeds
IntOk(x) ==
    CASE x.t \in {"int", "bool"} -> TRUE
      [] x.t = "str" ->
            LET s == Strip(x.v)
                d == IF s # << >> /\ s[1] \in {"+", "-"} THEN Tail(s) ELSE s
            IN d # << >> /\ \A i \in 1..Len(d) : IsDigit(d[i])
      [] OTHER -> FALSE
\* int(x) where it succeeds
IntOf(x) ==
    CASE x.t = "int" -> x.v
      [] x.t = "bool" -> IF x.v THEN 1 ELSE 0
      [] x.t = "str" ->
            LET s == Strip(x.v)
                d == IF s # << >> /\ s[1] \in {"+", "-"} THEN Tail(s) ELSE s
            IN IF s[1] = "-" THEN 0 - DigitsToNat(d) ELSE DigitsToNat(d)
      [] OTHER -> 0

----------------------------------------------------------------------------
(* validate_catalog.py *)

VALID_LEVELS == {"foundational", "intermediate", "advanced", "expert"}
VALID_STATUS == {"active", "beta", "retired"}
VALID_PRICE_CONFIDENCE == {<<"f","r","o","m","-","o","r","i","g","i","n","a","l","-","t","o","o","l","t","i","p">>, <<"e","s","t","i","m","a","t","e","d">>}
VALID_DOMAINS ==
    {"Communication and Network Security", "IAM", "Security Architecture and Engineering",
     "Asset Security", "Security and Risk Management", "Security Assessment and Testing",
     "Software Security", "Security Operations"}
VALID_SUB_AREAS ==
    {"Cloud/SysOps", "*nix", "ICS/IoT", "GRC", "Forensics", "Incident Handling",
     "Penetration Testing", "Exploitation"}
VALID_ROLE_GROUPS ==
    {"Network", "Asset", "Engineer", "Management", "Testing", "Software",
     "Blue Team Ops", "Red Team Ops", "IAM"}

DOMAIN_SUBAREA_MAP ==
    [d \in VALID_DOMAINS |->
        CASE d = "Security Architecture and Engineering" -> {"Cloud/SysOps", "*nix", "ICS/IoT"}
          [] d = "Security and Risk Management" -> {"GRC"}
          [] d = "Security Operations" ->
                {"Forensics", "Incident Handling", "Penetration Testing", "Exploitation"}
          [] OTHER -> {}]

UNKNOWN_PRICE_LABEL_HINTS ==
    {<<"n","o","t"," ","l","i","s","t","e","d">>, <<"u","n","k","n","o","w","n">>, <<"t","b","d">>, <<"s","e","e"," ","p","r","o","v","i","d","e","r">>, <<"n","/","a">>, <<"v","a","r","i","e","s">>}

\* URL_RE.match(url)
URL_RE(url) == StartsWith(url, <<"h","t","t","p",":","/","/">>) \/ StartsWith(url, <<"h","t","t","p","s",":","/","/">>)
\* ISO_DATE_RE.match(s)
ISO_DATE_RE(s) ==
    /\ Len(s) = 10
    /\ s[5] = "-" /\ s[8] = "-"
    /\ \A i \in {1, 2, 3, 4, 6, 7, 9, 10} : IsDigit(s[i])

IsLeap(y) == (y % 4 = 0 /\ y % 100 # 0) \/ y % 400 = 0
DaysInMonth(y, m) ==
    CASE m \in {4, 6, 9, 11} -> 30
      [] m = 2 -> IF IsLeap(y) THEN 29 ELSE 28
      [] OTHER -> 31
\* date.fromisoformat(s) does not raise ValueError (s matches ISO_DATE_RE)
FromIsoFormatOk(s) ==
    LET y == DigitsToNat(SubSeq(s, 1, 4))
        m == DigitsToNat(SubSeq(s, 6, 7))
        d == DigitsToNat(SubSeq(s, 9, 10))
    IN y >= 1 /\ m \in 1..12 /\ d >= 1 /\ d <= DaysInMonth(y, m)

REQUIRED_KEYS ==
    {"id", "name", "provider", "cert_code", "url", "domain_area", "sub_areas", "tracks",
     "level", "status", "ai_focus", "introduced_year", "last_updated", "delivery",
     "renewal", "language", "role_groups", "roles", "tags", "prerequisites",
     "description", "summary", "price_usd", "price_label", "price_confidence",
     "tooltip_legacy"}

\* one message of the errors list: the file it names and the fail() call that made it
Msg(path, kind) == [file |-> path, kind |-> kind]

\* outcome of a stretch of the loop body: the messages it appended and
\* whether it ended by raising an exception
Ran(msgs) == [msgs |-> msgs, raised |-> FALSE]
Raised(msgs) == [msgs |-> msgs, raised |-> TRUE]
When(cond, path, kind) == Ran(IF cond THEN <<Msg(path, kind)>> ELSE << >>)

RECURSIVE InOrder(_, _)
\* the stretches run one after the other, up to the first that raises
InOrder(rs, i) ==
    IF i > Len(rs) THEN Ran(<< >>)
    ELSE IF rs[i].raised THEN rs[i]
    ELSE LET rest == InOrder(rs, i + 1)
         IN [msgs |-> rs[i].msgs \o rest.msgs, raised |-> rest.raised]

RECURSIVE EachNotIn(_, _, _, _, _)
\* for x in xs: if x not in S: fail(...)
EachNotIn(xs, i, S, path, kind) ==
    IF i > Len(xs) THEN Ran(<< >>)
    ELSE IF Unhashable(xs[i]) THEN Raised(<< >>)
    ELSE LET rest == EachNotIn(xs, i + 1, S, path, kind)
             here == IF InStrSet(xs[i], S) THEN << >> ELSE <<Msg(path, kind)>>
         IN [msgs |-> here \o rest.msgs, raised |-> rest.raised]

\* lines 125-127
CheckMissing(path, p) == When(REQUIRED_KEYS \ DOMAIN p # {}, path, "missing_keys")

\* line 130
CertId(p) == PyStr(Get(p, "id", VStr(<< >>)))
\* CheckId without the seen-ids test
CheckId_NoDuplicateTest(path, p, seen) == When(CertId(p) # Stem(path), path, "id_mismatch")

\* lines 129-136
CheckId(path, p, seen) ==
    InOrder(<<When(CertId(p) # Stem(path), path, "id_mismatch"),
              When(CertId(p) \in seen, path, "duplicate_id")>>, 1)

\* x not in S, for a set S of str: raises on an unhashable x
CheckMember(x, S, path, kind) ==
    IF Unhashable(x) THEN Raised(<< >>) ELSE When(~InStrSet(x, S), path, kind)

\* lines 138-139
CheckDomain(path, p) ==
    CheckMember(Get(p, "domain_area", None), VALID_DOMAINS, path, "invalid_domain_area")

\* DOMAIN_SUBAREA_MAP.get(domain, set())
AllowedSubAreas(domain) ==
    IF domain.t = "str" /\ domain.v \in DOMAIN DOMAIN_SUBAREA_MAP
    THEN DOMAIN_SUBAREA_MAP[domain.v] ELSE {}

\* CheckSubAreas without the elif branch for domains that define no sub-areas
CheckSubAreas_NoEmptyRule(path, p) ==
    LET sub_areas == Get(p, "sub_areas", None)
        allowed_sub_areas == AllowedSubAreas(Get(p, "domain_area", None))
    IN IF sub_areas.t # "list" THEN When(TRUE, path, "sub_areas_not_list")
       ELSE InOrder(<<EachNotIn(sub_areas.v, 1, VALID_SUB_AREAS, path, "invalid_sub_area"),
                      IF allowed_sub_areas # {}
                      THEN EachNotIn(sub_areas.v, 1, allowed_sub_areas, path,
                                     "sub_area_incompatible")
                      ELSE Ran(<< >>)>>, 1)

\* lines 141-168
CheckSubAreas(path, p) ==
    LET sub_areas == Get(p, "sub_areas", None)
        allowed_sub_areas == AllowedSubAreas(Get(p, "domain_area", None))
    IN IF sub_areas.t # "list" THEN When(TRUE, path, "sub_areas_not_list")
       ELSE InOrder(<<EachNotIn(sub_areas.v, 1, VALID_SUB_AREAS, path, "invalid_sub_area"),
                      IF allowed_sub_areas # {}
                      THEN EachNotIn(sub_areas.v, 1, allowed_sub_areas, path,
                                     "sub_area_incompatible")
                      ELSE When(sub_areas.v # << >>, path, "sub_areas_must_be_empty")>>, 1)

\* lines 170-176
CheckRoleGroups(path, p) ==
    LET role_groups == Get(p, "role_groups", None)
    IN IF role_groups.t # "list" \/ role_groups.v = << >>
       THEN When(TRUE, path, "role_groups_empty")
       ELSE EachNotIn(role_groups.v, 1, VALID_ROLE_GROUPS, path, "invalid_role_group")

\* lines 178-182
CheckLevelStatus(path, p) ==
    InOrder(<<CheckMember(Get(p, "level", None), VALID_LEVELS, path, "invalid_level"),
              CheckMember(Get(p, "status", None), VALID_STATUS, path, "invalid_status")>>, 1)

\* lines 184-193
CheckTypes(path, p) ==
    LET price == Get(p, "price_usd", None)
    IN InOrder(<<When(Get(p, "ai_focus", None).t # "bool", path, "ai_focus_not_bool"),
                 When(~IsInstanceInt(Get(p, "introduced_year", None)), path,
                      "introduced_year_not_int"),
                 IF ~IsInstanceInt(price) THEN When(TRUE, path, "price_usd_not_int")
                 ELSE When(IntOf(price) < 0, path, "price_usd_negative")>>, 1)

\* str(payload.get(key, "")).strip()
Text(p, key) == Strip(PyStr(Get(p, key, VStr(<< >>))))

\* lines 195-228
CheckTexts(path, p) ==
    LET last_updated == Text(p, "last_updated")
    IN InOrder(<<When(Text(p, "description") = << >>, path, "description_empty"),
                 When(Text(p, "price_label") = << >>, path, "price_label_empty"),
                 When(PyStr(Get(p, "price_confidence", VStr(<< >>))) \notin VALID_PRICE_CONFIDENCE,
                      path, "invalid_price_confidence"),
                 When(~URL_RE(Text(p, "url")), path, "url_scheme"),
                 IF ~ISO_DATE_RE(last_updated) THEN When(TRUE, path, "last_updated_format")
                 ELSE When(~FromIsoFormatOk(last_updated), path, "last_updated_invalid"),
                 When(Text(p, "summary") = << >>, path, "summary_empty")>>, 1)

\* lines 230-245
CheckTooltip(path, p) ==
    LET tooltip_legacy == Text(p, "tooltip_legacy")
        name == Text(p, "name")
        cert_code == Text(p, "cert_code")
        description_text == Text(p, "description")
        tooltip_lower == Lower(tooltip_legacy)
        name_match == name # << >> /\ Contains(tooltip_lower, Lower(name))
        code_match == cert_code # << >> /\ Contains(tooltip_lower, Lower(cert_code))
        description_match ==
            description_text # << >> /\ Contains(tooltip_lower, Lower(description_text))
    IN IF tooltip_legacy = << >> THEN When(TRUE, path, "tooltip_legacy_empty")
       ELSE When(~name_match /\ ~code_match /\ ~description_match, path,
                 "tooltip_legacy_content")

\* line 249 without the "$" test
LabelHasNumber(price_label) == HasDigit(price_label)

\* line 249
LabelHasNumberOrDollar(price_label) == HasDigit(price_label) \/ HasChar(price_label, "$")
\* line 252: an unknown-price hint or "free" in the lowered label
HasUnknownOrFreeMarker(price_label_lower) ==
    \/ \E marker \in UNKNOWN_PRICE_LABEL_HINTS : Contains(price_label_lower, marker)
    \/ Contains(price_label_lower, <<"f","r","e","e">>)

\* lines 247-268
CheckPrice(path, p) ==
    LET raw == Get(p, "price_usd", VInt(0))
        price_usd == IntOf(raw)
        price_label == Text(p, "price_label")
        price_label_lower == Lower(price_label)
    IN IF ~IntOk(raw) THEN Raised(<< >>)
       ELSE InOrder(<<When(/\ price_usd = 0
                           /\ LabelHasNumberOrDollar(price_label)
                           /\ ~HasUnknownOrFreeMarker(price_label_lower),
                           path, "price_zero_numeric_label"),
                      When(price_usd > 0 /\ ~HasDigit(price_label), path,
                           "price_positive_no_digit"),
                      When(Contains(price_label_lower, <<"f","r","e","e">>) /\ price_usd # 0, path,
                           "price_free_nonzero")>>, 1)

\* LoopBody in which a document that is not a mapping ends the scan
LoopBody_NotObjectFatal(path, payload, seen) ==
    IF payload.t # "dict" THEN Raised(<<Msg(path, "not_object")>>)
    ELSE LET p == payload.v
         IN InOrder(<<CheckMissing(path, p),
                      CheckId(path, p, seen),
                      CheckDomain(path, p),
                      CheckSubAreas(path, p),
                      CheckRoleGroups(path, p),
                      CheckLevelStatus(path, p),
                      CheckTypes(path, p),
                      CheckTexts(path, p),
                      CheckTooltip(path, p),
                      CheckPrice(path, p)>>, 1)

\* lines 120-268: one iteration of the loop over files
LoopBody(path, payload, seen) ==
    IF payload.t = "malformed" THEN Raised(<< >>)
    ELSE IF payload.t # "dict" THEN When(TRUE, path, "not_object")
    ELSE LET p == payload.v
         IN InOrder(<<CheckMissing(path, p),
                      CheckId(path, p, seen),
                      CheckDomain(path, p),
                      CheckSubAreas(path, p),
                      CheckRoleGroups(path, p),
                      CheckLevelStatus(path, p),
                      CheckTypes(path, p),
                      CheckTexts(path, p),
                      CheckTooltip(path, p),
                      CheckPrice(path, p)>>, 1)

\* lines 111-117
ValidatorStart ==
    /\ vpc = "start"
    /\ files' = Sorted(DOMAIN certs_dir)
    /\ errors' = IF DOMAIN certs_dir = {} THEN <<Msg(<< >>, "no_files")>> ELSE << >>
    /\ seen_ids' = {}
    /\ vidx' = 1
    /\ vpc' = "loop"
    /\ UNCHANGED <<certs_dir, exit_code, stdout, ivars, rvars, pvars>>

\* lines 119-268: the loop body for the next file; an uncaught exception ends
\* the process with a traceback and status 1
ScanFile ==
    /\ vpc = "loop"
    /\ vidx <= Len(files)
    /\ LET path == files[vidx]
           payload == certs_dir[path]
           r == LoopBody(path, payload, seen_ids)
       IN /\ errors' = errors \o r.msgs
          /\ seen_ids' = IF payload.t = "dict" THEN seen_ids \cup {CertId(payload.v)}
                         ELSE seen_ids
          /\ IF r.raised
             THEN vpc' = "raised" /\ exit_code' = 1 /\ vidx' = vidx
             ELSE vpc' = "loop" /\ exit_code' = exit_code /\ vidx' = vidx + 1
    /\ UNCHANGED <<certs_dir, files, stdout, ivars, rvars, pvars>>

\* Report that returns 0 whatever the errors
Report_AlwaysZero ==
    /\ vpc = "loop"
    /\ vidx > Len(files)
    /\ stdout' = errors
    /\ exit_code' = 0
    /\ vpc' = "done"
    /\ UNCHANGED <<certs_dir, files, errors, seen_ids, vidx, ivars, rvars, pvars>>

\* lines 270-277 and sys.exit(main())
Report ==
    /\ vpc = "loop"
    /\ vidx > Len(files)
    /\ stdout' = errors
    /\ exit_code' = IF errors # << >> THEN 1 ELSE 0
    /\ vpc' = "done"
    /\ UNCHANGED <<certs_dir, files, errors, seen_ids, vidx, ivars, rvars, pvars>>

ValidatorNext == ValidatorStart \/ ScanFile \/ Report

----------------------------------------------------------------------------
(* Catalogs the Validator is run on *)

MaxFiles == 2

FileStems == {<<"a">>, <<"b">>, <<"c">>}

\* a record that satisfies every rule, stored under <stem>.yaml
ValidRecord(stem) ==
    [k \in REQUIRED_KEYS |->
        CASE k = "id" -> VStr(stem)
          [] k = "name" -> VStr(<<"S","e","c","+">>)
          [] k = "cert_code" -> VStr(<<"S","+">>)
          [] k = "url" -> VStr(<<"h","t","t","p","s",":","/","/","x",".","i","o">>)
          [] k = "domain_area" -> VStr("Security Operations")
          [] k = "sub_areas" -> VList(<<VStr("Forensics")>>)
          [] k = "level" -> VStr("advanced")
          [] k = "status" -> VStr("active")
          [] k = "ai_focus" -> VBool(FALSE)
          [] k = "introduced_year" -> VInt(2020)
          [] k = "last_updated" -> VStr(<<"2","0","2","4","-","0","2","-","2","9">>)
          [] k = "role_groups" -> VList(<<VStr("Blue Team Ops")>>)
          [] k = "prerequisites" -> VList(<<VStr("None")>>)
          [] k = "description" -> VStr(<<"I","n","t","r","o">>)
          [] k = "summary" -> VStr(<<"I","n","t","r","o">>)
          [] k = "price_usd" -> VInt(499)
          [] k = "price_label" -> VStr(<<"$","4","9","9"," ","e","x","a","m">>)
          [] k = "price_confidence" -> VStr(<<"e","s","t","i","m","a","t","e","d">>)
          [] k = "tooltip_legacy" -> VStr(<<"S","e","c","+"," ","|"," ","$","4","9","9"," ","e","x","a","m">>)
          [] k \in {"tracks", "roles", "tags"} -> VList(<<VStr("x")>>)
          [] OTHER -> VStr("x")]

\* an edit of a record: a set of <<key, value>> assignments and a set of keys removed
Edit(sets, dels) == [sets |-> sets, dels |-> dels]
Set1(k, v) == Edit({<<k, v>>}, {})
Set2(k1, v1, k2, v2) == Edit({<<k1, v1>>, <<k2, v2>>}, {})
Del1(k) == Edit({}, {k})

Apply(e, p) ==
    [k \in DOMAIN p \ e.dels |->
        IF \E a \in e.sets : a[1] = k
        THEN (CHOOSE a \in e.sets : a[1] = k)[2]
        ELSE p[k]]

SubAreaLists ==
    {VList(<< >>), VList(<<VStr("Forensics")>>), VList(<<VStr("GRC")>>),
     VList(<<VStr("Forensics"), VStr("GRC")>>)}

TaxonomyEdits ==
    {Set2("domain_area", VStr(d), "sub_areas", s) :
        d \in {"IAM", "Security Operations", "Security and Risk Management", "Bogus"},
        s \in SubAreaLists}
    \cup {Set1("domain_area", VList(<<VStr("IAM")>>)),
          Set1("domain_area", None),
          Set1("sub_areas", VStr("Forensics")),
          Set1("sub_areas", VList(<<VStr("Red")>>)),
          Set1("sub_areas", VList(<<VList(<< >>)>>)),
          Del1("sub_areas")}

PriceLabels ==
    {<<"$","4","9","9"," ","e","x","a","m">>, <<"P","r","i","c","e"," ","n","o","t"," ","l","i","s","t","e","d">>, <<"F","r","e","e">>, <<"EUR", " ", "e", "x", "a", "m">>,
     <<"$"," ","T","B","D">>, <<"F","r","e","e"," ","o","r"," ","$","5">>, <<"$"," ","e","x","a","m">>}

PriceEdits ==
    {Set2("price_usd", VInt(n), "price_label", VStr(l)) : n \in {0, 499}, l \in PriceLabels}
    \cup {Set1("price_usd", v) :
            v \in {None, VStr(<<"a","b","c">>), VStr(<<"1","2">>), VInt(0 - 1), VBool(TRUE)}}
    \cup {Del1("price_usd"), Set1("price_label", VStr(<<" ">>))}

IdEdits ==
    {Set1("id", VStr(s)) : s \in FileStems} \cup {Set1("id", None), Del1("id")}

OtherEdits ==
    {Set1("prerequisites", VList(<< >>)),
     Del1("tags"),
     Set1("role_groups", VList(<< >>)),
     Set1("role_groups", VList(<<VStr("Bogus")>>)),
     Set1("role_groups", VList(<<VList(<< >>)>>)),
     Set1("level", VStr("guru")),
     Set1("level", VList(<< >>)),
     Set1("status", VStr("draft")),
     Set1("status", VList(<< >>)),
     Set1("ai_focus", VStr("yes")),
     Set1("introduced_year", VStr("2020")),
     Set1("description", VStr(<<" ">>)),
     Set1("description", None),
     Set1("summary", VStr(<< >>)),
     Set1("price_confidence", VStr(<<"g","u","e","s","s">>)),
     Set1("url", VStr(<<"f","t","p",":","/","/","x",".","i","o">>)),
     Set1("last_updated", VStr(<<"2","0","2","3","-","0","2","-","2","9">>)),
     Set1("last_updated", VStr(<<"2","9","/","0","2","/","2","0","2","4">>)),
     Set1("tooltip_legacy", VStr(<< >>)),
     Set1("tooltip_legacy", VStr(<<"e","x","a","m">>))}

NoEdit == Edit({}, {})

\* every record variant
AllEdits == {NoEdit} \cup TaxonomyEdits \cup PriceEdits \cup IdEdits \cup OtherEdits
\* the variants that matter to the files scanned after them
CrossEdits ==
    {NoEdit} \cup IdEdits
    \cup {Set1("price_usd", None), Set1("domain_area", VList(<<VStr("IAM")>>))}

\* what a file holds: a record variant, a document that is not a mapping
\* (a list, an empty file), or text that does not parse
Choice(doc, e) == [doc |-> doc, edit |-> e]
AllChoices ==
    {Choice("record", e) : e \in AllEdits}
    \cup {Choice(d, NoEdit) : d \in {"list", "none", "malformed"}}
CrossChoices ==
    {Choice("record", e) : e \in CrossEdits}
    \cup {Choice(d, NoEdit) : d \in {"list", "malformed"}}

\* yaml.safe_load of the file
Decoded(name, ch) ==
    CASE ch.doc = "record" -> VDict(Apply(ch.edit, ValidRecord(Stem(name))))
      [] ch.doc = "list" -> VList(<< >>)
      [] ch.doc = "none" -> None
      [] OTHER -> Malformed

FileNames == {s \o YamlExt : s \in FileStems}

\* the catalog holding the files D, where the file full takes the variant cf
\* and every other file n the variant cx[n]
Catalog(D, full, cf, cx) == [n \in D |-> Decoded(n, IF n = full THEN cf ELSE cx[n])]

----------------------------------------------------------------------------
(* import_from_original.py *)

TODAY == "2026-02-27"

DOMAIN_LAYOUT ==
    <<"Communication and Network Security", "IAM", "Security Architecture and Engineering",
      "Asset Security", "Security and Risk Management", "Security Assessment and Testing",
      "Software Security", "Security Operations">>
SUBAREA_LAYOUT ==
    <<"Cloud/SysOps", "*nix", "ICS/IoT", "GRC", "Forensics", "Incident Handling",
      "Penetration Testing", "Exploitation">>

MAIN_TO_AREA ==
    [c \in {"network", "iam", "engineer", "asset", "mgmt", "test", "software", "blueops",
            "redops"} |->
        CASE c = "network" -> "Communication and Network Security"
          [] c = "iam" -> "IAM"
          [] c = "engineer" -> "Security Architecture and Engineering"
          [] c = "asset" -> "Asset Security"
          [] c = "mgmt" -> "Security and Risk Management"
          [] c = "test" -> "Security Assessment and Testing"
          [] c = "software" -> "Software Security"
          [] OTHER -> "Security Operations"]

SUB_TO_SUBAREA ==
    [c \in {"cloud_sec_ops", "nix", "ics_iot", "grc", "forensics", "incident_handling",
            "pen_testing", "exploit"} |->
        CASE c = "cloud_sec_ops" -> "Cloud/SysOps"
          [] c = "nix" -> "*nix"
          [] c = "ics_iot" -> "ICS/IoT"
          [] c = "grc" -> "GRC"
          [] c = "forensics" -> "Forensics"
          [] c = "incident_handling" -> "Incident Handling"
          [] c = "pen_testing" -> "Penetration Testing"
          [] OTHER -> "Exploitation"]

RECURSIVE SubNonAlnum(_)
\* re.sub(r"[^a-z0-9]+", "-", value)
SubNonAlnum(s) ==
    IF s = << >> THEN << >>
    ELSE IF IsLowerAlnum(Head(s)) THEN <<Head(s)>> \o SubNonAlnum(Tail(s))
    ELSE IF Len(s) > 1 /\ ~IsLowerAlnum(s[2]) THEN SubNonAlnum(Tail(s))
    ELSE <<"-">> \o SubNonAlnum(Tail(s))

RECURSIVE StripDash(_)
\* value.strip("-")
StripDash(s) ==
    IF s # << >> /\ Head(s) = "-" THEN StripDash(Tail(s))
    ELSE IF s # << >> /\ s[Len(s)] = "-" THEN StripDash(SubSeq(s, 1, Len(s) - 1))
    ELSE s

\* slugify that strips the hyphens before it substitutes
slugify_StripFirst(value) ==
    LET v == SubNonAlnum(StripDash(Strip(Lower(value))))
    IN IF v = << >> THEN <<"c","e","r","t">> ELSE v

\* lines 133-137
slugify(value) ==
    LET v == StripDash(SubNonAlnum(Strip(Lower(value))))
    IN IF v = << >> THEN <<"c","e","r","t">> ELSE v

\* f"{base}-{idx}"
Suffixed(base, idx) == base \o <<"-">> \o IntToStr(idx)

RECURSIVE FirstFree(_, _, _)
\* lines 144-146: the while loop
FirstFree(base, used, idx) ==
    IF Suffixed(base, idx) \in used THEN FirstFree(base, used, idx + 1) ELSE idx

\* unique_id without the while loop: the suffix is always 2
unique_id_NoLoop(base, used) == IF base \notin used THEN base ELSE Suffixed(base, 2)
\* unique_id that numbers every id, the first one too
unique_id_AlwaysSuffix(base, used) == Suffixed(base, FirstFree(base, used, 2))

\* lines 140-149: the id returned; the caller's set gains it
unique_id(base, used) ==
    IF base \notin used THEN base ELSE Suffixed(base, FirstFree(base, used, 2))

RECURSIVE ReplaceEscapedNewline(_)
\* tooltip.replace("\\n", "\n"): a backslash followed by n becomes a newline
ReplaceEscapedNewline(s) ==
    IF s = << >> THEN << >>
    ELSE IF Len(s) >= 2 /\ s[1] = "\\" /\ s[2] = "n"
    THEN <<"\n">> \o ReplaceEscapedNewline(SubSeq(s, 3, Len(s)))
    ELSE <<Head(s)>> \o ReplaceEscapedNewline(Tail(s))

RECURSIVE SplitOn(_, _)
\* s.split(c): the pieces between the occurrences of the character c
SplitOn(s, c) ==
    IF ~HasChar(s, c) THEN <<s>>
    ELSE LET i == CHOOSE k \in 1..Len(s) : s[k] = c /\ \A j \in 1..(k - 1) : s[j] # c
         IN <<SubSeq(s, 1, i - 1)>> \o SplitOn(SubSeq(s, i + 1, Len(s)), c)

RECURSIVE Words(_)
\* raw.split(): the maximal runs of characters that are not whitespace
Words(s) ==
    LET t == LStrip(s)
    IN IF t = << >> THEN << >>
       ELSE IF \A k \in 1..Len(t) : ~IsSpace(t[k]) THEN <<t>>
       ELSE LET i == CHOOSE k \in 1..Len(t) :
                        IsSpace(t[k]) /\ \A j \in 1..(k - 1) : ~IsSpace(t[j])
            IN <<SubSeq(t, 1, i - 1)>> \o Words(SubSeq(t, i, Len(t)))

\* xs[:n]
FirstOf(xs, n) == SubSeq(xs, 1, IF Len(xs) < n THEN Len(xs) ELSE n)

RECURSIVE Join(_, _)
\* sep.join(parts)
Join(parts, sep) ==
    IF parts = << >> THEN << >>
    ELSE IF Len(parts) = 1 THEN parts[1]
    ELSE parts[1] \o sep \o Join(Tail(parts), sep)

\* lines 172-179
normalize_lines(tooltip) ==
    LET raws == SplitOn(ReplaceEscapedNewline(tooltip), "\n")
        cleaned == [i \in 1..Len(raws) |-> Strip(Join(Words(raws[i]), <<" ">>))]
    IN SelectSeq(cleaned, LAMBDA line : line # << >>)

\* the words of the pattern at line 189
PRICE_WORDS ==
    {<<"f","r","e","e">>, <<"s","u","b","s","c","r","i","p","t","i","o","n">>, <<"t","r","a","v","e","l">>, <<"m","e","m","b","e","r">>, <<"e","x","a","m">>}
\* line 189: re.search(r"(\$|EUR|GBP|free|subscription|travel|member|exam)", line,
\* flags=re.IGNORECASE), with the euro and the pound sign for EUR and GBP
PriceSearch(line) ==
    \/ \E c \in {"$", "EUR", "GBP"} : HasChar(line, c)
    \/ \E w \in PRICE_WORDS : Contains(Lower(line), w)

\* where \s*[0-9] matches from position i on: the position of the digit, or 0
DigitAfterSpaces(s, i) ==
    IF \E j \in i..Len(s) : ~IsSpace(s[j])
    THEN LET j == CHOOSE k \in i..Len(s) : ~IsSpace(s[k]) /\ \A m \in i..(k - 1) : IsSpace(s[m])
         IN IF IsDigit(s[j]) THEN j ELSE 0
    ELSE 0

RECURSIVE AmountRun(_, _)
\* [0-9,]* from position i on
AmountRun(s, i) ==
    IF i <= Len(s) /\ (IsDigit(s[i]) \/ s[i] = ",")
    THEN <<s[i]>> \o AmountRun(s, i + 1)
    ELSE << >>

\* line 199: re.search(r"\$\s*([0-9][0-9,]*(?:\.[0-9]+)?)", label): the
\* position of the first "$" the pattern matches at, or 0
AmountMatch(label) ==
    LET at == {i \in 1..Len(label) : label[i] = "$" /\ DigitAfterSpaces(label, i + 1) # 0}
    IN IF at = {} THEN 0 ELSE CHOOSE i \in at : \A k \in at : i <= k

\* line 202: int(float(group.replace(",", ""))), the digits before the
\* decimal point (amounts of fewer than 16 digits, which float holds exactly)
AmountOf(label) ==
    LET run == AmountRun(label, DigitAfterSpaces(label, AmountMatch(label) + 1))
    IN DigitsToNat(SelectSeq(run, LAMBDA c : c # ","))

PriceResult(label, amount, confidence) ==
    [label |-> label, amount |-> amount, confidence |-> confidence]
\* lines 184 and 196
NotListed == PriceResult(<<"P","r","i","c","e"," ","n","o","t"," ","l","i","s","t","e","d">>, 0, <<"e","s","t","i","m","a","t","e","d">>)

\* extract_price whose label joins every price line, not the first two
extract_price_NoCap(lines) ==
    LET matching == SelectSeq(Tail(lines), PriceSearch)
        price_lines == IF matching = << >> /\ Len(lines) > 1 THEN <<lines[2]>> ELSE matching
        label == Join(price_lines, <<" ","|"," ">>)
    IN IF lines = << >> \/ price_lines = << >> THEN NotListed
       ELSE PriceResult(label, IF AmountMatch(label) = 0 THEN 0 ELSE AmountOf(label),
                        <<"f","r","o","m","-","o","r","i","g","i","n","a","l","-","t","o","o","l","t","i","p">>)

\* lines 182-205
extract_price(lines) ==
    LET matching == SelectSeq(Tail(lines), PriceSearch)
        price_lines == IF matching = << >> /\ Len(lines) > 1 THEN <<lines[2]>> ELSE matching
        label == Join(FirstOf(price_lines, 2), <<" ","|"," ">>)
    IN IF lines = << >> \/ price_lines = << >> THEN NotListed
       ELSE PriceResult(label, IF AmountMatch(label) = 0 THEN 0 ELSE AmountOf(label),
                        <<"f","r","o","m","-","o","r","i","g","i","n","a","l","-","t","o","o","l","t","i","p">>)

\* skill_to_level with < for <= in every test
skill_to_level_Strict(skill) ==
    IF skill < 6 THEN "expert"
    ELSE IF skill < 12 THEN "advanced"
    ELSE IF skill < 18 THEN "intermediate"
    ELSE "foundational"

\* lines 208-215
skill_to_level(skill) ==
    IF skill <= 6 THEN "expert"
    ELSE IF skill <= 12 THEN "advanced"
    ELSE IF skill <= 18 THEN "intermediate"
    ELSE "foundational"

\* lines 218-225; sub_cat is "" for None (both are falsy)
category_to_domain(main_cat, sub_cat) ==
    [area |-> IF main_cat \in DOMAIN MAIN_TO_AREA THEN MAIN_TO_AREA[main_cat]
              ELSE "Security Operations",
     sub_areas |-> IF sub_cat # "" /\ sub_cat \in DOMAIN SUB_TO_SUBAREA
                   THEN <<SUB_TO_SUBAREA[sub_cat]>> ELSE << >>]

\* record.get(key, default) on a raw record
RawGet(record, key, default) == IF key \in DOMAIN record THEN record[key] ELSE default

\* line 341: skill_to_level(int(record.get("skillLevel", 26)))
LevelOf(record) == skill_to_level(RawGet(record, "skillLevel", 26))

\* a record of the catalog: the keys of write_yaml that the model carries
Cert(id, name, cert_code, domain_area, sub_areas, level, status, description, price_usd, price_label, price_confidence, tooltip_legacy) ==
    [id |-> id, name |-> name, cert_code |-> cert_code, domain_area |-> domain_area,
     sub_areas |-> sub_areas, level |-> level, status |-> status,
     description |-> description, price_usd |-> price_usd, price_label |-> price_label,
     price_confidence |-> price_confidence, tooltip_legacy |-> tooltip_legacy]

\* lines 315-360 (record["content"] must exist)
build_cert(record, used) ==
    LET tooltip_lines == normalize_lines(RawGet(record, "tooltiptext", << >>))
        description == IF tooltip_lines # << >> THEN tooltip_lines[1] ELSE record["content"]
        cat == category_to_domain(RawGet(record, "mainCategory", ""),
                                  RawGet(record, "subCategory", ""))
        price == extract_price(tooltip_lines)
    IN Cert(unique_id(slugify(record["content"]), used),
            Strip(record["content"]),
            Strip(record["content"]),
            cat.area, cat.sub_areas, LevelOf(record), "active",
            description,
            price.amount, price.label, price.confidence,
            Join(FirstOf(tooltip_lines, 3), <<" ","|"," ">>))

\* an entry of the extras list; the price confidence of each is "estimated"
Extra(id, name, cert_code, domain_area, sub_areas, level, status, description, price_usd, price_label, tooltip_legacy) ==
    Cert(id, name, cert_code, domain_area, sub_areas, level, status, description,
         price_usd, price_label, <<"e","s","t","i","m","a","t","e","d">>, tooltip_legacy)

\* lines 364-561
EXTRAS ==
    <<Extra(<<"c","o","m","p","t","i","a","-","s","e","c","a","i","-","p","l","u","s">>,
            <<"C","o","m","p","T","I","A"," ","S","e","c","A","I","+">>,
            <<"S","e","c","A","I","+">>,
            "Security Operations", <<"Incident Handling">>, "intermediate", "active",
            <<"A","I","-","f","o","c","u","s","e","d"," ","s","e","c","u","r","i","t","y"," ","c","e","r","t","i","f","i","c","a","t","i","o","n"," ","f","o","r"," ","d","e","f","e","n","d","i","n","g"," ","A","I"," ","s","y","s","t","e","m","s"," ","a","n","d"," ","h","a","n","d","l","i","n","g"," ","A","I","-","d","r","i","v","e","n"," ","t","h","r","e","a","t","s",".">>,
            499, <<"$","4","9","9"," ","e","x","a","m"," ","(","l","i","s","t"," ","p","r","i","c","e",","," ","m","a","y"," ","v","a","r","y"," ","b","y"," ","r","e","g","i","o","n",")">>,
            <<"C","o","m","p","T","I","A"," ","S","e","c","A","I","+"," ","|"," ","$","4","9","9"," ","e","x","a","m"," ","(","l","i","s","t"," ","p","r","i","c","e",","," ","m","a","y"," ","v","a","r","y"," ","b","y"," ","r","e","g","i","o","n",")">>),
      Extra(<<"i","s","a","c","a","-","a","a","i","a">>,
            <<"A","d","v","a","n","c","e","d"," ","i","n"," ","A","I"," ","A","u","d","i","t"," ","(","A","A","I","A",")">>,
            <<"A","A","I","A">>,
            "Security Assessment and Testing", <<"GRC">>, "advanced", "active",
            <<"A","d","v","a","n","c","e","d"," ","A","I"," ","a","u","d","i","t"," ","c","r","e","d","e","n","t","i","a","l"," ","c","o","v","e","r","i","n","g"," ","g","o","v","e","r","n","a","n","c","e",","," ","c","o","n","t","r","o","l","s",","," ","a","n","d"," ","a","s","s","u","r","a","n","c","e"," ","t","e","c","h","n","i","q","u","e","s",".">>,
            575, <<"$","5","7","5"," ","m","e","m","b","e","r"," ","/"," ","$","7","6","0"," ","n","o","n","-","m","e","m","b","e","r">>,
            <<"A","d","v","a","n","c","e","d"," ","i","n"," ","A","I"," ","A","u","d","i","t"," ","(","A","A","I","A",")"," ","|"," ","$","5","7","5"," ","m","e","m","b","e","r"," ","/"," ","$","7","6","0"," ","n","o","n","-","m","e","m","b","e","r">>),
      Extra(<<"i","s","a","c","a","-","a","a","i","s","m">>,
            <<"A","d","v","a","n","c","e","d"," ","i","n"," ","A","I"," ","S","e","c","u","r","i","t","y"," ","M","a","n","a","g","e","m","e","n","t"," ","(","A","A","I","S","M",")">>,
            <<"A","A","I","S","M">>,
            "Security and Risk Management", <<"GRC">>, "advanced", "active",
            <<"A","I"," ","s","e","c","u","r","i","t","y"," ","m","a","n","a","g","e","m","e","n","t"," ","c","r","e","d","e","n","t","i","a","l"," ","f","o","r"," ","e","n","t","e","r","p","r","i","s","e"," ","g","o","v","e","r","n","a","n","c","e"," ","a","n","d"," ","r","i","s","k"," ","e","x","e","c","u","t","i","o","n",".">>,
            575, <<"$","5","7","5"," ","m","e","m","b","e","r"," ","/"," ","$","7","6","0"," ","n","o","n","-","m","e","m","b","e","r">>,
            <<"A","d","v","a","n","c","e","d"," ","i","n"," ","A","I"," ","S","e","c","u","r","i","t","y"," ","M","a","n","a","g","e","m","e","n","t"," ","(","A","A","I","S","M",")"," ","|"," ","$","5","7","5"," ","m","e","m","b","e","r"," ","/"," ","$","7","6","0"," ","n","o","n","-","m","e","m","b","e","r">>),
      Extra(<<"i","s","a","c","a","-","a","a","i","r">>,
            <<"A","d","v","a","n","c","e","d"," ","i","n"," ","A","I"," ","R","i","s","k"," ","(","A","A","I","R",")">>,
            <<"A","A","I","R">>,
            "Security and Risk Management", <<"GRC">>, "advanced", "beta",
            <<"A","I"," ","r","i","s","k"," ","c","r","e","d","e","n","t","i","a","l"," ","f","o","c","u","s","e","d"," ","o","n"," ","l","i","f","e","c","y","c","l","e"," ","r","i","s","k"," ","d","e","c","i","s","i","o","n","s"," ","a","n","d"," ","g","o","v","e","r","n","a","n","c","e"," ","c","o","n","t","r","o","l","s",".">>,
            575, <<"$","5","7","5"," ","m","e","m","b","e","r"," ","/"," ","$","7","6","0"," ","n","o","n","-","m","e","m","b","e","r"," ","(","e","x","p","e","c","t","e","d",")">>,
            <<"A","d","v","a","n","c","e","d"," ","i","n"," ","A","I"," ","R","i","s","k"," ","(","A","A","I","R",")"," ","|"," ","$","5","7","5"," ","m","e","m","b","e","r"," ","/"," ","$","7","6","0"," ","n","o","n","-","m","e","m","b","e","r"," ","(","e","x","p","e","c","t","e","d",")">>),
      Extra(<<"i","a","p","p","-","a","i","g","p">>,
            <<"A","r","t","i","f","i","c","i","a","l"," ","I","n","t","e","l","l","i","g","e","n","c","e"," ","G","o","v","e","r","n","a","n","c","e"," ","P","r","o","f","e","s","s","i","o","n","a","l"," ","(","A","I","G","P",")">>,
            <<"A","I","G","P">>,
            "Security and Risk Management", <<"GRC">>, "advanced", "active",
            <<"G","o","v","e","r","n","a","n","c","e","-","f","o","c","u","s","e","d"," ","A","I"," ","c","r","e","d","e","n","t","i","a","l"," ","f","o","r"," ","r","e","s","p","o","n","s","i","b","l","e"," ","a","n","d"," ","c","o","m","p","l","i","a","n","t"," ","A","I"," ","p","r","o","g","r","a","m","s",".">>,
            550, <<"$","5","5","0"," ","e","x","a","m"," ","+"," ","$","2","5","0"," ","o","n","e","-","t","i","m","e"," ","f","e","e">>,
            <<"A","I","G","P"," ","|"," ","$","5","5","0"," ","e","x","a","m"," ","+"," ","$","2","5","0"," ","o","n","e","-","t","i","m","e"," ","f","e","e">>),
      Extra(<<"g","i","a","c","-","g","o","a","a">>,
            <<"G","I","A","C"," ","O","f","f","e","n","s","i","v","e"," ","A","I"," ","A","n","a","l","y","s","t"," ","(","G","O","A","A",")">>,
            <<"G","O","A","A">>,
            "Security Operations", <<"Exploitation">>, "advanced", "active",
            <<"N","e","w"," ","G","I","A","C"," ","c","r","e","d","e","n","t","i","a","l"," ","v","a","l","i","d","a","t","i","n","g"," ","o","f","f","e","n","s","i","v","e"," ","A","I"," ","t","r","a","d","e","c","r","a","f","t"," ","a","n","d"," ","a","d","v","e","r","s","a","r","i","a","l"," ","w","o","r","k","f","l","o","w","s",".">>,
            999, <<"$","9","9","9"," ","e","x","a","m">>,
            <<"G","I","A","C"," ","O","f","f","e","n","s","i","v","e"," ","A","I"," ","A","n","a","l","y","s","t"," ","(","G","O","A","A",")"," ","|"," ","$","9","9","9"," ","e","x","a","m">>),
      Extra(<<"p","e","c","b","-","i","s","o","-","4","2","0","0","1","-","l","e","a","d","-","a","u","d","i","t","o","r">>,
            <<"I","S","O","/","I","E","C"," ","4","2","0","0","1"," ","L","e","a","d"," ","A","u","d","i","t","o","r">>,
            <<"I","S","O","4","2","0","0","1","-","L","A">>,
            "Security and Risk Management", <<"GRC">>, "advanced", "active",
            <<"A","u","d","i","t"," ","t","r","a","c","k"," ","f","o","r"," ","a","s","s","e","s","s","i","n","g"," ","A","I"," ","m","a","n","a","g","e","m","e","n","t"," ","s","y","s","t","e","m","s"," ","a","g","a","i","n","s","t"," ","I","S","O","/","I","E","C"," ","4","2","0","0","1",".">>,
            0, <<"P","r","i","c","e"," ","v","a","r","i","e","s"," ","b","y"," ","t","r","a","i","n","i","n","g"," ","p","a","r","t","n","e","r">>,
            <<"I","S","O","/","I","E","C"," ","4","2","0","0","1"," ","L","e","a","d"," ","A","u","d","i","t","o","r"," ","|"," ","P","r","i","c","e"," ","v","a","r","i","e","s"," ","b","y"," ","t","r","a","i","n","i","n","g"," ","p","a","r","t","n","e","r">>)>>

RECURSIVE ExtrasFrom(_, _)
\* lines 563-568: the loop over extras, from the i-th on
ExtrasFrom(i, used) ==
    IF i > Len(EXTRAS) THEN << >>
    ELSE LET cert_id == unique_id(EXTRAS[i].id, used)
         IN <<[EXTRAS[i] EXCEPT !.id = cert_id]>> \o ExtrasFrom(i + 1, used \cup {cert_id})

\* lines 363-568
build_extra_ai_certs(used) == ExtrasFrom(1, used)

\* f"{cert['id']}.yaml"
FileNameOf(cert) == cert.id \o YamlExt

RECURSIVE WriteAll(_, _, _)
\* lines 618-621: write_yaml of every record, a later one replacing an
\* earlier one of the same name
WriteAll(certs, i, dir) ==
    IF i > Len(certs) THEN dir
    ELSE WriteAll(certs, i + 1,
                  [n \in DOMAIN dir \cup {FileNameOf(certs[i])} |->
                      IF n = FileNameOf(certs[i]) THEN certs[i] ELSE dir[n]])

RECURSIVE InsertSorted(_, _)
InsertSorted(x, s) ==
    IF s = << >> THEN <<x>>
    ELSE IF LexLess(x, Head(s)) THEN <<x>> \o s
    ELSE <<Head(s)>> \o InsertSorted(x, Tail(s))
RECURSIVE SortedList(_)
\* sorted(xs) for a list of strings
SortedList(xs) == IF xs = << >> THEN << >> ELSE InsertSorted(Head(xs), SortedList(Tail(xs)))

\* ImportStart without the unlink loop
ImportStart_KeepOld ==
    /\ ipc = "start"
    /\ used_ids' = {}
    /\ ipc' = "build"
    /\ UNCHANGED <<source_data, target_dir, index_file, certifications, filenames, vvars, rvars, pvars>>

\* lines 607-613: read the source, delete every *.yaml of the target directory
ImportStart ==
    /\ ipc = "start"
    /\ target_dir' = << >>
    /\ used_ids' = {}
    /\ ipc' = "build"
    /\ UNCHANGED <<source_data, index_file, certifications, filenames, vvars, rvars, pvars>>

\* line 614: build_cert for the next raw record; record["content"] raises
\* KeyError when the title is missing
BuildCert ==
    /\ ipc = "build"
    /\ Len(certifications) < Len(source_data)
    /\ LET record == source_data[Len(certifications) + 1]
       IN IF "content" \notin DOMAIN record
          THEN /\ ipc' = "raised"
               /\ UNCHANGED <<used_ids, certifications>>
          ELSE LET cert == build_cert(record, used_ids)
               IN /\ certifications' = Append(certifications, cert)
                  /\ used_ids' = used_ids \cup {cert.id}
                  /\ ipc' = "build"
    /\ UNCHANGED <<source_data, target_dir, index_file, filenames, vvars, rvars, pvars>>

\* line 615
BuildExtras ==
    /\ ipc = "build"
    /\ Len(certifications) = Len(source_data)
    /\ LET extras == build_extra_ai_certs(used_ids)
       IN /\ certifications' = certifications \o extras
          /\ used_ids' = used_ids \cup {extras[i].id : i \in 1..Len(extras)}
    /\ ipc' = "write"
    /\ UNCHANGED <<source_data, target_dir, index_file, filenames, vvars, rvars, pvars>>

\* lines 617-621
WriteFiles ==
    /\ ipc = "write"
    /\ target_dir' = WriteAll(certifications, 1, target_dir)
    /\ filenames' = [i \in 1..Len(certifications) |-> FileNameOf(certifications[i])]
    /\ ipc' = "index"
    /\ UNCHANGED <<source_data, index_file, used_ids, certifications, vvars, rvars, pvars>>

\* lines 623-651
WriteIndex ==
    /\ ipc = "index"
    /\ index_file' = [domains |-> DOMAIN_LAYOUT, sub_areas |-> SUBAREA_LAYOUT,
                      certifications |-> SortedList(filenames),
                      last_reviewed |-> TODAY]
    /\ ipc' = "done"
    /\ UNCHANGED <<source_data, target_dir, used_ids, certifications, filenames, vvars, rvars, pvars>>

ImporterNext == ImportStart \/ BuildCert \/ BuildExtras \/ WriteFiles \/ WriteIndex

----------------------------------------------------------------------------
(* Raw source data and earlier output the Importer is run on *)

MaxRaw == 2

Titles ==
    {<<"a">>,
     <<"A">>,
     <<"a", "-", "2">>,
     <<"a", "+">>,
     << >>,
     <<"c", "e", "r", "t">>,
     <<"I", "s", "a", "c", "a", " ", "A", "A", "I", "A">>,
     <<"i", "s", "a", "c", "a", "-", "a", "a", "i", "a", "-", "2">>}

\* tooltip texts: empty, the two lines of a title and a price, five lines
Tooltips ==
    {<< >>,
     <<"C","o","m","p","T","I","A"," ","S","e","c","u","r","i","t","y","+","\\","n","$","3","7","0"," ","e","x","a","m"," ","v","o","u","c","h","e","r">>,
     <<" ","a"," "," ","b","\n","\n","2"," ","h","\n","F","r","e","e","\n","d">>}

Raw(content, main_cat, sub_cat) ==
    [content |-> content, mainCategory |-> main_cat, subCategory |-> sub_cat]

RawRecords ==
    {Raw(t, "blueops", "forensics") : t \in Titles}
    \cup {Raw(<<"a">>, m, s) : m \in {"network", "mgmt", "zzz"}, s \in {"", "grc", "forensics"}}
    \cup {Raw(<<"a">>, "zzz", "bogus")}
    \cup {[content |-> <<"S", "e", "c", "+">>, tooltiptext |-> t] : t \in Tooltips}
    \cup {[content |-> <<"b">>, skillLevel |-> n] : n \in {6, 19}}
    \cup {[mainCategory |-> "iam"]}

\* a record left by an earlier run
Stale(id) ==
    Extra(id, <<"o","l","d">>, <<"o","l","d">>, "IAM", << >>, "expert", "retired", <<"o","l","d">>,
          0, <<"F","r","e","e">>, <<"o","l","d">>)
StaleDirs ==
    {<< >>,
     [n \in {<<"a",".","y","a","m","l">>, <<"z","z",".","y","a","m","l">>} |-> Stale(Stem(n))]}
IndexOf(dir) ==
    [domains |-> DOMAIN_LAYOUT, sub_areas |-> SUBAREA_LAYOUT,
     certifications |-> Sorted(DOMAIN dir), last_reviewed |-> TODAY]

----------------------------------------------------------------------------
(* rebuild_index.py *)

DOMAIN_ORDER ==
    <<"Communication and Network Security", "IAM", "Security Architecture and Engineering",
      "Asset Security", "Security and Risk Management", "Security Assessment and Testing",
      "Software Security", "Security Operations">>
SUBAREA_ORDER ==
    <<"Cloud/SysOps", "*nix", "ICS/IoT", "GRC", "Forensics", "Incident Handling",
      "Penetration Testing", "Exploitation">>

\* the characters of the taxonomy names the catalogs below use outside
\* DOMAIN_ORDER and SUBAREA_ORDER
Spell(name) ==
    CASE name = "Zero Trust" -> <<"Z","e","r","o"," ","T","r","u","s","t">>
      [] name = "appsec" -> <<"a","p","p","s","e","c">>
      [] name = "OSINT" -> <<"O","S","I","N","T">>
      [] name = "Red" -> <<"R","e","d">>
      [] name = "blue" -> <<"b","l","u","e">>
      [] name \in {"R", "e", "d"} -> <<name>>
      [] name = "" -> << >>

\* sorted(S) for a set of names
SortedNames(S) ==
    LET spelled == Sorted({Spell(x) : x \in S})
    IN [i \in 1..Len(spelled) |-> CHOOSE x \in S : Spell(x) = spelled[i]]

\* the file as yaml.safe_load returns it: a record written by write_yaml comes
\* back as a mapping of its keys; any other file is held as what it decodes to
SafeLoad(content) ==
    IF "t" \in DOMAIN content THEN content
    ELSE VDict([k \in DOMAIN content |->
                  CASE k = "sub_areas" -> VList([i \in 1..Len(content.sub_areas) |->
                                                   VStr(content.sub_areas[i])])
                    [] k = "price_usd" -> VInt(content.price_usd)
                    [] OTHER -> VStr(content[k])])

\* bool(x) is False: None, an empty list, str or mapping, 0, False
Falsy(x) ==
    CASE x.t = "none" -> TRUE
      [] x.t = "list" -> x.v = << >>
      [] x.t = "str" -> x.v = ""
      [] x.t = "dict" -> DOMAIN x.v = {}
      [] x.t = "int" -> x.v = 0
      [] x.t = "bool" -> ~x.v
      [] OTHER -> FALSE

\* payload.get("sub_areas", []) or []
SubAreasOf(p) ==
    LET s == Get(p, "sub_areas", VList(<< >>))
    IN IF Falsy(s) THEN VList(<< >>) ELSE s

\* for sub_area in s: the items of a list, the characters of a str, the keys
\* of a mapping (all of them str, so that their order changes nothing)
ItemsOf(s) ==
    CASE s.t = "str" -> [i \in 1..Len(Spell(s.v)) |-> VStr(Spell(s.v)[i])]
      [] s.t = "dict" ->
           LET keys == CHOOSE q \in [1..Cardinality(DOMAIN s.v) -> DOMAIN s.v] :
                           {q[i] : i \in DOMAIN q} = DOMAIN s.v
           IN [i \in DOMAIN keys |-> VStr(keys[i])]
      [] OTHER -> s.v

\* the number of items line 49 adds before it stops: all of them, or those
\* before the first one that cannot be hashed
AddedOf(items) ==
    IF \E i \in 1..Len(items) : Unhashable(items[i])
    THEN (CHOOSE i \in 1..Len(items) :
             Unhashable(items[i]) /\ \A j \in 1..(i - 1) : ~Unhashable(items[j])) - 1
    ELSE Len(items)

\* lines 46-49: the loop body on one decoded file; raised is TRUE when it ends
\* by an exception (a payload without .get, an unhashable value, a sub_areas
\* value that cannot be iterated: an int, a bool), with the sets as they are
\* at that point
ScanPayload(payload, doms, subs) ==
    IF payload.t # "dict" THEN [domains |-> doms, sub_areas |-> subs, raised |-> TRUE]
    ELSE LET d == Get(payload.v, "domain_area", VStr("Security Operations"))
             s == SubAreasOf(payload.v)
         IN IF Unhashable(d)
            THEN [domains |-> doms, sub_areas |-> subs, raised |-> TRUE]
            ELSE IF s.t \notin {"list", "str", "dict"}
            THEN [domains |-> doms \cup {d.v}, sub_areas |-> subs, raised |-> TRUE]
            ELSE LET items == ItemsOf(s)
                     n == AddedOf(items)
                 IN [domains |-> doms \cup {d.v},
                     sub_areas |-> subs \cup {items[i].v : i \in 1..n},
                     raised |-> n < Len(items)]

\* [x for x in order if x in S]
InOrderOf(order, S) == SelectSeq(order, LAMBDA x : x \in S)

\* OrderedBy that leaves out the values outside the fixed order
OrderedBy_KnownOnly(order, S) == InOrderOf(order, S)

\* lines 51-54: the values of S in the fixed order, then the others sorted
OrderedBy(order, S) == InOrderOf(order, S) \o SortedNames(S \ SeqToSet(order))

\* date.today().isoformat() on the day of the run
Dates == {"2026-02-27", "2026-03-01"}

MaxRuns == 2

\* the Rebuilder is run when no Importer is running
RebuilderMayRun == ipc \in {"idle", "done"}

\* lines 40-43
RebuildStart ==
    /\ rb_pc \in {"start", "done"}
    /\ rb_runs < MaxRuns
    /\ RebuilderMayRun
    /\ rb_files' = Sorted(DOMAIN target_dir)
    /\ rb_domains' = {}
    /\ rb_sub_areas' = {}
    /\ rb_idx' = 1
    /\ rb_pc' = "loop"
    /\ UNCHANGED <<rb_runs, ivars, vvars, pvars>>

\* lines 45-49: the loop body for the next file
RebuildScan ==
    /\ rb_pc = "loop"
    /\ rb_idx <= Len(rb_files)
    /\ LET r == ScanPayload(SafeLoad(target_dir[rb_files[rb_idx]]), rb_domains, rb_sub_areas)
       IN /\ rb_domains' = r.domains
          /\ rb_sub_areas' = r.sub_areas
          /\ IF r.raised THEN rb_pc' = "raised" /\ rb_idx' = rb_idx
             ELSE rb_pc' = "loop" /\ rb_idx' = rb_idx + 1
    /\ UNCHANGED <<rb_files, rb_runs, ivars, vvars, pvars>>

\* RebuildWrite that adds to the lists already in the index
RebuildWrite_Append ==
    /\ rb_pc = "loop"
    /\ rb_idx > Len(rb_files)
    /\ \E today \in Dates :
          index_file' = [domains |-> index_file.domains \o OrderedBy(DOMAIN_ORDER, rb_domains),
                         sub_areas |-> index_file.sub_areas
                                          \o OrderedBy(SUBAREA_ORDER, rb_sub_areas),
                         certifications |-> rb_files,
                         last_reviewed |-> today]
    /\ rb_pc' = "done"
    /\ rb_runs' = rb_runs + 1
    /\ UNCHANGED <<rb_files, rb_domains, rb_sub_areas, rb_idx, source_data, target_dir,
                   used_ids, certifications, filenames, ipc, vvars, pvars>>

\* lines 51-86
RebuildWrite ==
    /\ rb_pc = "loop"
    /\ rb_idx > Len(rb_files)
    /\ \E today \in Dates :
          index_file' = [domains |-> OrderedBy(DOMAIN_ORDER, rb_domains),
                         sub_areas |-> OrderedBy(SUBAREA_ORDER, rb_sub_areas),
                         certifications |-> rb_files,
                         last_reviewed |-> today]
    /\ rb_pc' = "done"
    /\ rb_runs' = rb_runs + 1
    /\ UNCHANGED <<rb_files, rb_domains, rb_sub_areas, rb_idx, source_data, target_dir,
                   used_ids, certifications, filenames, ipc, vvars, pvars>>

RebuilderNext == RebuildStart \/ RebuildScan \/ RebuildWrite

----------------------------------------------------------------------------
(* Record files the Rebuilder is run on *)

MaxRecs == 2

\* a canonical record: the keys the Rebuilder reads
Canon(domain_area, subs) ==
    VDict([k \in {"domain_area", "sub_areas"} |->
              IF k = "domain_area" THEN VStr(domain_area)
              ELSE VList([i \in 1..Len(subs) |-> VStr(subs[i])])])

CanonPayloads ==
    {Canon(d, s) :
        d \in {"Security Operations", "IAM", "Zero Trust", "appsec"},
        s \in {<< >>, <<"Forensics", "GRC">>, <<"blue", "Red", "GRC">>, <<"OSINT", "OSINT">>}}

\* files that are not canonical records: keys missing or null, values of
\* other types, documents that are not a mapping, text that does not parse
OtherPayloads ==
    {VDict([sub_areas |-> VList(<<VStr("Forensics")>>)]),
     VDict([domain_area |-> VStr("IAM")]),
     VDict([domain_area |-> VStr("IAM"), sub_areas |-> None]),
     VDict([domain_area |-> VStr("IAM"), sub_areas |-> VInt(3)]),
     VDict([domain_area |-> VStr("IAM"), sub_areas |-> VStr("Red")]),
     VDict([domain_area |-> VStr("IAM"), sub_areas |-> VList(<<VStr("GRC"), VList(<< >>)>>)]),
     VDict([domain_area |-> VStr("IAM"), sub_areas |-> VStr("")]),
     VDict([domain_area |-> VStr("IAM"), sub_areas |-> VDict(<< >>)]),
     VDict([domain_area |-> VStr("IAM"), sub_areas |-> VDict([GRC |-> VInt(1)])]),
     VDict([domain_area |-> VList(<<VStr("IAM")>>), sub_areas |-> VList(<< >>)]),
     VList(<< >>),
     None,
     Malformed}

RbPayloads == CanonPayloads \cup OtherPayloads

\* the index left by an earlier run
OldIndex ==
    [domains |-> DOMAIN_LAYOUT, sub_areas |-> SUBAREA_LAYOUT, certifications |-> << >>,
     last_reviewed |-> TODAY]

----------------------------------------------------------------------------
(* Functions of the Importer called on their own *)

MaxLen == 4
MaxLines == 4
MaxSkill == 20

\* slugify(arg), then slugify of what it returned
CallSlugify ==
    /\ fn = "slugify"
    /\ Len(ret) < 2
    /\ ret' = Append(ret, slugify(IF ret = << >> THEN arg ELSE ret[Len(ret)]))
    /\ UNCHANGED <<fn, arg, vvars, ivars, rvars>>

\* line 316: tooltip_lines = normalize_lines(arg)
CallNormalizeLines ==
    /\ fn = "extract_price"
    /\ ret = << >>
    /\ ret' = <<normalize_lines(arg)>>
    /\ UNCHANGED <<fn, arg, vvars, ivars, rvars>>

\* line 319: extract_price(tooltip_lines)
CallExtractPrice ==
    /\ fn = "extract_price"
    /\ Len(ret) = 1
    /\ ret' = Append(ret, extract_price(ret[1]))
    /\ UNCHANGED <<fn, arg, vvars, ivars, rvars>>

\* line 341 for the next raw record of arg
CallSkillToLevel ==
    /\ fn = "skill_to_level"
    /\ Len(ret) < Len(arg)
    /\ ret' = Append(ret, LevelOf(arg[Len(ret) + 1]))
    /\ UNCHANGED <<fn, arg, vvars, ivars, rvars>>

SlugifyNext == CallSlugify
PriceNext == CallNormalizeLines \/ CallExtractPrice
LevelNext == CallSkillToLevel

\* the characters of the titles slugify is called on
SlugChars == {"a", "B", "1", "-", " ", "+"}

\* pieces of tooltip text between line breaks
TooltipPieces ==
    {<<"C","o","m","p","T","I","A"," ","S","e","c","u","r","i","t","y","+">>,
     <<"$","3","7","0"," ","e","x","a","m"," ","v","o","u","c","h","e","r">>,
     << >>,
     <<" ","2"," "," ","h"," ">>,
     <<"F","r","e","e">>,
     <<"$"," ","1",",","2","9","9",".","5","0"," ","t","r","a","v","e","l">>,
     <<"$",".","5"," ","o","r"," ","$","7","5">>,
     <<"\t", "m", "e", "m", "b", "e", "r", " ", " ", "EUR", "9">>}
\* a line break in the source text: a newline, or a backslash and an n
LineBreaks == {<<"\n">>, <<"\\", "n">>}

\* raw records with and without a skill score
SkillRecords ==
    {[skillLevel |-> n] : n \in (0 - MaxSkill)..MaxSkill} \cup {[mainCategory |-> "iam"]}

----------------------------------------------------------------------------
(* Specifications *)

ValidatorIdle ==
    /\ certs_dir = << >> /\ files = << >> /\ errors = << >> /\ seen_ids = {}
    /\ vidx = 0 /\ vpc = "idle" /\ exit_code = 0 - 1 /\ stdout = << >>
ImporterIdle ==
    /\ source_data = << >> /\ target_dir = << >> /\ index_file = IndexOf(<< >>)
    /\ used_ids = {} /\ certifications = << >> /\ filenames = << >> /\ ipc = "idle"
\* the Rebuilder before main() is entered
RebuilderAt(pc) ==
    /\ rb_files = << >> /\ rb_domains = {} /\ rb_sub_areas = {}
    /\ rb_idx = 0 /\ rb_pc = pc /\ rb_runs = 0
RebuilderIdle == RebuilderAt("idle")
NoCall == fn = "none" /\ arg = << >> /\ ret = << >>

\* the Validator started on some catalog
ValidatorInit ==
    /\ \E D \in SUBSET FileNames :
         /\ Cardinality(D) <= MaxFiles
         /\ IF D = {} THEN certs_dir = << >>
            ELSE \E full \in D, cf \in AllChoices :
                    \E cx \in [D \ {full} -> CrossChoices] :
                        certs_dir = Catalog(D, full, cf, cx)
    /\ files = << >> /\ errors = << >> /\ seen_ids = {}
    /\ vidx = 0 /\ vpc = "start" /\ exit_code = 0 - 1 /\ stdout = << >>
    /\ ImporterIdle /\ RebuilderIdle /\ NoCall

\* the Importer started on some source data, over the output of an earlier run
ImporterInit ==
    /\ \E n \in 0..MaxRaw : source_data \in [1..n -> RawRecords]
    /\ target_dir \in StaleDirs
    /\ index_file = IndexOf(target_dir)
    /\ used_ids = {} /\ certifications = << >> /\ filenames = << >> /\ ipc = "start"
    /\ ValidatorIdle /\ RebuilderAt("start") /\ NoCall

\* the Rebuilder started on some directory of record files
RebuilderInit ==
    /\ \E D \in SUBSET FileNames :
         /\ Cardinality(D) <= MaxRecs
         /\ target_dir \in [D -> RbPayloads]
    /\ index_file = OldIndex
    /\ source_data = << >> /\ used_ids = {} /\ certifications = << >> /\ filenames = << >>
    /\ ipc = "idle"
    /\ RebuilderAt("start")
    /\ ValidatorIdle /\ NoCall

\* slugify called on some title
SlugifyInit ==
    /\ fn = "slugify"
    /\ \E n \in 0..MaxLen : arg \in [1..n -> SlugChars]
    /\ ret = << >>
    /\ ValidatorIdle /\ ImporterIdle /\ RebuilderIdle

\* normalize_lines and extract_price called on some tooltip text
PriceInit ==
    /\ fn = "extract_price"
    /\ \E n \in 0..MaxLines :
          \E pieces \in [1..n -> TooltipPieces], br \in LineBreaks : arg = Join(pieces, br)
    /\ ret = << >>
    /\ ValidatorIdle /\ ImporterIdle /\ RebuilderIdle

\* the level computed for two raw records
LevelInit ==
    /\ fn = "skill_to_level"
    /\ arg \in [1..2 -> SkillRecords]
    /\ ret = << >>
    /\ ValidatorIdle /\ ImporterIdle /\ RebuilderIdle

\* the Importer, and the Rebuilder run on its output
PipelineNext == ImporterNext \/ RebuilderNext

Init == ValidatorInit \/ ImporterInit \/ RebuilderInit \/ SlugifyInit \/ PriceInit \/ LevelInit
Next == ValidatorNext \/ ImporterNext \/ RebuilderNext \/ SlugifyNext \/ PriceNext \/ LevelNext

ValidatorSpec == ValidatorInit /\ [][ValidatorNext]_vars
ImporterSpec == ImporterInit /\ [][ImporterNext]_vars
RebuilderSpec == RebuilderInit /\ [][RebuilderNext]_vars
PipelineSpec == ImporterInit /\ [][PipelineNext]_vars
SlugifySpec == SlugifyInit /\ [][SlugifyNext]_vars
PriceSpec == PriceInit /\ [][PriceNext]_vars
LevelSpec == LevelInit /\ [][LevelNext]_vars
Spec == Init /\ [][Next]_vars

----------------------------------------------------------------------------
(* Properties of the Importer *)

Ids == [i \in 1..Len(certifications) |-> certifications[i].id]
\* the records built from raw input come first, the extras after them
NumImported == IF ipc \in {"start", "build", "raised"} THEN Len(certifications)
               ELSE Len(source_data)
\* the candidate id the i-th record was built from
BaseOf(i) == IF i <= NumImported THEN slugify(certifications[i].name)
             ELSE EXTRAS[i - NumImported].id
Written == ipc \in {"index", "done"}

\* C1: the ids of all records built in a run, imported and extra, are pairwise
\* distinct, and once the files are written every record is the content of
\* the file whose stem is its id
C1_DistinctIds ==
    /\ \A i, j \in 1..Len(certifications) : i # j => Ids[i] # Ids[j]
    /\ Written =>
          \A i \in 1..Len(certifications) :
              \E n \in DOMAIN target_dir :
                  Stem(n) = Ids[i] /\ target_dir[n] = certifications[i]

\* an imported record took the id of an extra, and an earlier one that id with -2
C1_Witness ==
    /\ ipc = "done"
    /\ \E i, j \in 1..NumImported, k \in 1..Len(EXTRAS) :
          /\ Ids[i] = EXTRAS[k].id
          /\ Ids[j] = Suffixed(EXTRAS[k].id, 2)
          /\ Ids[NumImported + k] = Suffixed(EXTRAS[k].id, 3)

\* C4: every record the Importer builds has its sub-areas among those the
\* Validator allows for its domain
C4_SubAreasAllowed ==
    \A i \in 1..Len(certifications) :
        SeqToSet(certifications[i].sub_areas)
            \subseteq DOMAIN_SUBAREA_MAP[certifications[i].domain_area]

IdsBefore(i) == {Ids[j] : j \in 1..(i - 1)}
\* base-k is not among the ids handed out before the i-th
FreeAt(i, k) == Suffixed(BaseOf(i), k) \notin IdsBefore(i)

\* C9: each id is its candidate when no earlier record holds it, otherwise
\* the candidate with the smallest suffix k >= 2 not held by an earlier
\* record; the used set is the set of ids handed out; two raw records with
\* the same candidate get base and base-2
C9_FirstUnusedSuffix ==
    /\ \A i \in 1..Len(certifications) :
          IF BaseOf(i) \notin IdsBefore(i) THEN Ids[i] = BaseOf(i)
          ELSE \E k \in 2..(Len(certifications) + 1) :
                  /\ Ids[i] = Suffixed(BaseOf(i), k)
                  /\ FreeAt(i, k)
                  /\ \A m \in 2..(k - 1) : ~FreeAt(i, m)
    /\ ipc \in {"build", "write", "index", "done"} => used_ids = SeqToSet(Ids)
    /\ (NumImported >= 2 /\ Len(certifications) >= 2 /\ BaseOf(1) = BaseOf(2))
          => Ids[1] = BaseOf(1) /\ Ids[2] = Suffixed(BaseOf(1), 2)

\* two raw records with one candidate were imported; and a record found its
\* candidate and the candidate with -2 both taken
C9_Witness ==
    /\ ipc = "done"
    /\ NumImported = 2 /\ BaseOf(1) = BaseOf(2)
    /\ \E i \in 1..Len(certifications) : ~FreeAt(i, 2) /\ BaseOf(i) \in IdsBefore(i)

IsSortedStrict(s) == \A i \in 1..(Len(s) - 1) : LexLess(s[i], s[i + 1])

\* C10: when the Importer has finished, the directory holds one file for
\* each of the n imported records and each extra and nothing else, and the
\* index lists exactly those file names in increasing order
C10_FullRegeneration ==
    ipc = "done" =>
        /\ Len(certifications) = Len(source_data) + Len(EXTRAS)
        /\ Cardinality(DOMAIN target_dir) = Len(source_data) + Len(EXTRAS)
        /\ \A n \in DOMAIN target_dir :
              \E i \in 1..Len(certifications) :
                  n = FileNameOf(certifications[i]) /\ target_dir[n] = certifications[i]
        /\ \A i \in 1..Len(certifications) : FileNameOf(certifications[i]) \in DOMAIN target_dir
        /\ SeqToSet(index_file.certifications) = DOMAIN target_dir
        /\ IsSortedStrict(index_file.certifications)

\* a finished run over two raw records whose files were written in an order
\* that is not the sorted one
C10_Witness ==
    /\ ipc = "done"
    /\ Len(source_data) = 2
    /\ filenames # index_file.certifications
    /\ LexLess(filenames[2], filenames[1])

----------------------------------------------------------------------------
(* Properties of the Validator *)

\* the files that decode to a mapping
RecordFiles == {n \in DOMAIN certs_dir : certs_dir[n].t = "dict"}
Field(n, key) == Get(certs_dir[n].v, key, None)
\* a message about file n from one of the fail() calls in kinds is recorded
Recorded(n, kinds) ==
    \E i \in 1..Len(errors) : errors[i].file = n /\ errors[i].kind \in kinds
RecordedAny(n) == \E i \in 1..Len(errors) : errors[i].file = n

\* C2: the Validator never ends by an uncaught exception while it scans a
\* file that decodes, whatever the document holds
C2_NeverAborts == vpc = "raised" => certs_dir[files[vidx]].t = "malformed"

\* C3: after the scan, a record whose prerequisites is an empty list has a
\* violation recorded and the run fails
C3_EmptyPrerequisitesRejected ==
    vpc = "done" =>
        \A n \in RecordFiles :
            (Field(n, "prerequisites").t = "list" /\ Field(n, "prerequisites").v = << >>)
                => (RecordedAny(n) /\ exit_code # 0)

SubAreaKinds == {"sub_area_incompatible", "sub_areas_must_be_empty"}
\* the sub-areas the data model allows for the domain of file n
AllowedFor(n) ==
    IF Field(n, "domain_area").t = "str" /\ Field(n, "domain_area").v \in VALID_DOMAINS
    THEN DOMAIN_SUBAREA_MAP[Field(n, "domain_area").v] ELSE {}
SubAreaValues(n) == {Field(n, "sub_areas").v[i].v : i \in 1..Len(Field(n, "sub_areas").v)}

\* C5: after the scan, a record with a list of sub-areas has a sub-area/domain
\* violation recorded (and the run fails) exactly when some sub-area is
\* outside the set allowed for its domain, an empty set included
C5_SubAreaRule ==
    vpc = "done" =>
        \A n \in RecordFiles :
            Field(n, "sub_areas").t = "list" =>
                /\ Recorded(n, SubAreaKinds) <=> ~(SubAreaValues(n) \subseteq AllowedFor(n))
                /\ Recorded(n, SubAreaKinds) => exit_code # 0

\* domain "IAM" with sub-area "Forensics" was rejected
C5_Witness ==
    /\ vpc = "done"
    /\ \E n \in RecordFiles :
          /\ Field(n, "domain_area") = VStr("IAM")
          /\ Field(n, "sub_areas") = VList(<<VStr("Forensics")>>)
          /\ Recorded(n, {"sub_areas_must_be_empty"})

PriceOf(n) == IntOf(Get(certs_dir[n].v, "price_usd", VInt(0)))
LabelOf(n) == Text(certs_dir[n].v, "price_label")
HasMarker(label) ==
    \/ \E h \in UNKNOWN_PRICE_LABEL_HINTS : Contains(Lower(label), h)
    \/ Contains(Lower(label), <<"f","r","e","e">>)
\* the euro sign; the pound sign is not among the model's characters
CurrencySymbols == {"$", "EUR"}
HasCurrencySymbol(label) == \E c \in CurrencySymbols : HasChar(label, c)

PriceRule(n, looksNumeric) ==
    /\ Recorded(n, {"price_zero_numeric_label"})
          <=> (PriceOf(n) = 0 /\ looksNumeric /\ ~HasMarker(LabelOf(n)))
    /\ Recorded(n, {"price_positive_no_digit"})
          <=> (PriceOf(n) > 0 /\ ~HasDigit(LabelOf(n)))
    /\ Recorded(n, {"price_free_nonzero"})
          <=> (Contains(Lower(LabelOf(n)), <<"f","r","e","e">>) /\ PriceOf(n) # 0)

\* C6 as stated: after the scan, a price violation is recorded for a record
\* exactly when price_usd is 0 and the label has a digit or a currency symbol
\* and no unknown/free marker, or price_usd > 0 and the label has no digit,
\* or the label says free and price_usd is not 0
C6_PriceCoherence_AnyCurrency ==
    vpc = "done" =>
        \A n \in RecordFiles :
            PriceRule(n, HasDigit(LabelOf(n)) \/ HasCurrencySymbol(LabelOf(n)))

\* C6 amended: the same with "a digit or a dollar sign" for "a digit or a
\* currency symbol"
C6_PriceCoherence ==
    vpc = "done" =>
        \A n \in RecordFiles :
            PriceRule(n, HasDigit(LabelOf(n)) \/ HasChar(LabelOf(n), "$"))

\* price_usd 0 with a label that has a dollar sign, no digit and no marker
\* was rejected
C6_Witness ==
    /\ vpc = "done"
    /\ \E n \in RecordFiles :
          /\ PriceOf(n) = 0
          /\ HasChar(LabelOf(n), "$") /\ ~HasDigit(LabelOf(n)) /\ ~HasMarker(LabelOf(n))
          /\ Recorded(n, {"price_zero_numeric_label"})

\* C7: the Validator returns 0 only after a scan of every file that recorded
\* nothing, and when it returns the status is 1 exactly if a violation was
\* recorded and every recorded violation has been printed
C7_ExitSignal ==
    /\ exit_code = 0 => (vpc = "done" /\ errors = << >> /\ vidx > Len(files))
    /\ vpc = "done" =>
          /\ exit_code \in {0, 1}
          /\ exit_code # 0 <=> Len(errors) > 0
          /\ stdout = errors

\* a run that returned failure after printing several violations
C7_Witness == vpc = "done" /\ exit_code = 1 /\ Len(stdout) >= 2

\* C8: after the scan, when two files carry the same id a duplicate-id
\* violation is recorded for the one scanned later and the run fails
C8_DuplicateIdRejected ==
    vpc = "done" =>
        \A i, j \in 1..Len(files) :
            (/\ i < j
             /\ files[i] \in RecordFiles /\ files[j] \in RecordFiles
             /\ CertId(certs_dir[files[i]].v) = CertId(certs_dir[files[j]].v))
                => (Recorded(files[j], {"duplicate_id"}) /\ exit_code # 0)

\* two files with the same id were scanned
C8_Witness ==
    /\ vpc = "done"
    /\ \E i, j \in 1..Len(files) :
          /\ i < j
          /\ files[i] \in RecordFiles /\ files[j] \in RecordFiles
          /\ Field(files[i], "id") = Field(files[j], "id")
          /\ Recorded(files[j], {"duplicate_id"})

----------------------------------------------------------------------------
(* Properties of the Index Rebuilder *)

\* file n holds a canonical record: a mapping with a domain_area string and a
\* sub_areas list of strings
IsCanonical(n) ==
    LET x == target_dir[n]
    IN /\ "t" \in DOMAIN x
       /\ x.t = "dict"
       /\ {"domain_area", "sub_areas"} \subseteq DOMAIN x.v
       /\ x.v.domain_area.t = "str"
       /\ x.v.sub_areas.t = "list"
       /\ \A i \in 1..Len(x.v.sub_areas.v) : x.v.sub_areas.v[i].t = "str"
CanonicalDir == \A n \in DOMAIN target_dir : IsCanonical(n)
DomainsInUse == {target_dir[n].v.domain_area.v : n \in DOMAIN target_dir}
SubAreasInUse ==
    UNION {{target_dir[n].v.sub_areas.v[i].v : i \in 1..Len(target_dir[n].v.sub_areas.v)} :
              n \in DOMAIN target_dir}

NoDuplicates(s) == \A i, j \in 1..Len(s) : i # j => s[i] # s[j]
PosIn(order, x) == CHOOSE i \in 1..Len(order) : order[i] = x
\* a may stand before b: both recognised and in the fixed order, or a
\* recognised and b not, or neither recognised and a sorts first
MayPrecede(order, a, b) ==
    IF a \in SeqToSet(order)
    THEN b \in SeqToSet(order) => PosIn(order, a) < PosIn(order, b)
    ELSE b \notin SeqToSet(order) /\ LexLess(Spell(a), Spell(b))
PriorityOrdered(order, s) ==
    \A i, j \in 1..Len(s) : i < j => MayPrecede(order, s[i], s[j])

\* C11: the index the Importer wrote agrees on the domain, sub-area and file
\* lists with the index the Rebuilder writes when it is run right after the
\* Importer on the records the Importer wrote
C11_ImporterIndexAsRebuilt ==
    [][(ipc = "done" /\ rb_runs = 0 /\ rb_runs' = 1)
          => /\ index_file'.domains = index_file.domains
             /\ index_file'.sub_areas = index_file.sub_areas
             /\ index_file'.certifications = index_file.certifications]_vars

\* C12: no step of the Rebuilder changes a record file, and a run that follows
\* a completed run writes the file list, the domain list and the sub-area
\* list that are already in the index
C12_RebuildIdempotent ==
    [][/\ target_dir' = target_dir
       /\ (rb_runs >= 1 /\ rb_runs' = rb_runs + 1)
             => /\ index_file'.certifications = index_file.certifications
                /\ index_file'.domains = index_file.domains
                /\ index_file'.sub_areas = index_file.sub_areas]_vars

\* the Rebuilder has completed two runs over two record files, and the index
\* is not the one it found
C12_Witness ==
    /\ rb_pc = "done" /\ rb_runs = 2
    /\ Len(index_file.certifications) = 2
    /\ Len(index_file.domains) = 2
    /\ index_file.sub_areas # << >>

\* C13: after a run over canonical records the domain list and the sub-area
\* list have no duplicates, hold exactly the values in use, the recognised
\* ones first in the fixed order and the others after them in sorted order,
\* and the file list is the sorted list of all record file names
C13_RebuiltLists ==
    (rb_pc = "done" /\ CanonicalDir) =>
        /\ NoDuplicates(index_file.domains)
        /\ SeqToSet(index_file.domains) = DomainsInUse
        /\ PriorityOrdered(DOMAIN_ORDER, index_file.domains)
        /\ NoDuplicates(index_file.sub_areas)
        /\ SeqToSet(index_file.sub_areas) = SubAreasInUse
        /\ PriorityOrdered(SUBAREA_ORDER, index_file.sub_areas)
        /\ SeqToSet(index_file.certifications) = DOMAIN target_dir
        /\ IsSortedStrict(index_file.certifications)

\* two canonical records with unrecognised domains, and sub-areas both
\* recognised and not, were indexed
C13_Witness ==
    /\ rb_pc = "done" /\ CanonicalDir
    /\ index_file.domains = <<"Zero Trust", "appsec">>
    /\ index_file.sub_areas = <<"GRC", "Forensics", "Red", "blue">>
    /\ Len(index_file.certifications) = 2

----------------------------------------------------------------------------
(* Properties of the functions of the Importer *)

\* s is made of runs of lowercase letters and digits joined by single hyphens
IsValidSlug(s) ==
    /\ s # << >>
    /\ \A i \in 1..Len(s) : IsLowerAlnum(s[i]) \/ s[i] = "-"
    /\ s[1] # "-" /\ s[Len(s)] # "-"
    /\ \A i \in 1..(Len(s) - 1) : ~(s[i] = "-" /\ s[i + 1] = "-")

\* C14: slugify of what slugify returned is that same value, and slugify of a
\* valid slug is the slug itself
C14_SlugifyIdempotent ==
    fn = "slugify" =>
        /\ (Len(ret) = 2) => (ret[2] = ret[1])
        /\ (Len(ret) >= 1 /\ IsValidSlug(arg)) => (ret[1] = arg)

\* slugify was called twice on a title that is not a slug and whose slug has
\* a hyphen
C14_Witness ==
    /\ fn = "slugify" /\ Len(ret) = 2
    /\ ~IsValidSlug(arg)
    /\ ret[1] # arg /\ HasChar(ret[1], "-")

\* the positions, after the first, of the lines that speak of a price
PriceHits(lines) == {i \in 2..Len(lines) : PriceSearch(lines[i])}
MinOf(S) == CHOOSE i \in S : \A k \in S : i <= k
\* position j holds the first digit of an amount opened by a "$" at i: there
\* is nothing but whitespace between them
OpensAmount(label, i, j) ==
    /\ label[i] = "$"
    /\ i < j /\ j <= Len(label)
    /\ IsDigit(label[j])
    /\ \A k \in (i + 1)..(j - 1) : IsSpace(label[k])
IsAmountChar(c) == IsDigit(c) \/ c = ","
\* the whole part of the amount whose first digit is at j
WholePart(label, j) ==
    LET e == CHOOSE e \in j..Len(label) :
                 /\ \A k \in j..e : IsAmountChar(label[k])
                 /\ (e = Len(label) \/ ~IsAmountChar(label[e + 1]))
    IN DigitsToNat(SelectSeq(SubSeq(label, j, e), IsDigit))
\* the first "$<digits>" amount of the label, 0 when it has none
FirstAmount(label) ==
    LET opens == {i \in 1..Len(label) : \E j \in 1..Len(label) : OpensAmount(label, i, j)}
    IN IF opens = {} THEN 0
       ELSE WholePart(label, CHOOSE j \in 1..Len(label) : OpensAmount(label, MinOf(opens), j))

ExampleTooltip == <<"C","o","m","p","T","I","A"," ","S","e","c","u","r","i","t","y","+">> \o <<"\n">> \o <<"$","3","7","0"," ","e","x","a","m"," ","v","o","u","c","h","e","r">>

\* C15: for the normalized lines of a tooltip, the label is the first price
\* line after the first line, or the first two joined by " | "; without a
\* price line it is the second line; without a second line the result is
\* ("Price not listed", 0, "estimated"); the price is the whole part of the
\* first "$<digits>" amount of the label, 0 without one; and the example
\* tooltip gives description "CompTIA Security+", a label containing
\* "$370 exam voucher" and price 370
C15_ExtractPrice ==
    (fn = "extract_price" /\ Len(ret) = 2) =>
        LET lines == ret[1]
            r == ret[2]
            hits == PriceHits(lines)
        IN /\ (hits = {} /\ Len(lines) < 2) =>
                  /\ r.label = <<"P","r","i","c","e"," ","n","o","t"," ","l","i","s","t","e","d">>
                  /\ r.amount = 0
                  /\ r.confidence = <<"e","s","t","i","m","a","t","e","d">>
           /\ (hits = {} /\ Len(lines) >= 2) => (r.label = lines[2])
           /\ (Cardinality(hits) = 1) => (r.label = lines[MinOf(hits)])
           /\ (Cardinality(hits) >= 2) =>
                  (r.label = lines[MinOf(hits)] \o <<" ","|"," ">>
                                \o lines[MinOf(hits \ {MinOf(hits)})])
           /\ (Len(lines) >= 2) => (r.amount = FirstAmount(r.label))
           /\ (arg = ExampleTooltip) =>
                  /\ lines[1] = <<"C","o","m","p","T","I","A"," ","S","e","c","u","r","i","t","y","+">>
                  /\ Contains(r.label, <<"$","3","7","0"," ","e","x","a","m"," ","v","o","u","c","h","e","r">>)
                  /\ r.amount = 370

\* the example tooltip was normalized and its price extracted
C15_Example ==
    /\ fn = "extract_price" /\ Len(ret) = 2
    /\ arg = ExampleTooltip
    /\ ret[2].amount = 370

\* a tooltip with three price lines after its first line: the label is the
\* first two of them, and the third, the only one with an amount, is left out
C15_Witness ==
    /\ fn = "extract_price" /\ Len(ret) = 2
    /\ Len(ret[1]) = 4
    /\ PriceHits(ret[1]) = {2, 3, 4}
    /\ ret[2].label = ret[1][2] \o <<" ","|"," ">> \o ret[1][3]
    /\ AmountMatch(ret[1][2]) = 0 /\ AmountMatch(ret[1][3]) = 0 /\ AmountMatch(ret[1][4]) # 0
    /\ ret[2].amount = 0

\* the proficiency the four levels stand for, lowest first
Tier(level) ==
    CASE level = "foundational" -> 0
      [] level = "intermediate" -> 1
      [] level = "advanced" -> 2
      [] level = "expert" -> 3
HasScore(i) == "skillLevel" \in DOMAIN arg[i]

\* C16: a score maps to expert up to 6, advanced up to 12, intermediate up to
\* 18 and foundational above; of two scores the lower never gets the lower
\* tier; a record without a score gets foundational
C16_LevelBuckets ==
    fn = "skill_to_level" =>
        /\ \A i \in 1..Len(ret) :
              IF HasScore(i)
              THEN LET s == arg[i].skillLevel
                   IN /\ ret[i] \in {"expert", "advanced", "intermediate", "foundational"}
                      /\ ret[i] = "expert" <=> s <= 6
                      /\ ret[i] = "advanced" <=> (6 < s /\ s <= 12)
                      /\ ret[i] = "intermediate" <=> (12 < s /\ s <= 18)
                      /\ ret[i] = "foundational" <=> 18 < s
              ELSE ret[i] = "foundational"
        /\ (Len(ret) = 2 /\ HasScore(1) /\ HasScore(2) /\ arg[1].skillLevel <= arg[2].skillLevel)
              => Tier(ret[1]) >= Tier(ret[2])

\* the levels of a record without a score and of a record with score 6 were
\* computed
C16_Witness ==
    /\ fn = "skill_to_level" /\ Len(ret) = 2
    /\ ~HasScore(1) /\ ret[1] = "foundational"
    /\ HasScore(2) /\ arg[2].skillLevel = 6 /\ ret[2] = "expert"

----------------------------------------------------------------------------
(* Structural errors in the Validator *)

\* the files that decode to something other than a mapping
NonMappingFiles == {n \in DOMAIN certs_dir : certs_dir[n].t \notin {"dict", "malformed"}}
MessagesOf(n) == SelectSeq(errors, LAMBDA m : m.file = n)
\* the ids of the mappings among the first k files
IdsOfFirst(k) == {CertId(certs_dir[files[j]].v) : j \in {i \in 1..k : files[i] \in RecordFiles}}
PositionOf(n) == CHOOSE i \in 1..Len(files) : files[i] = n

\* C17: a file that does not decode to a mapping never ends the scan; once it
\* is scanned it has exactly one message, the structural one; the seen ids are
\* those of the mappings scanned, so it adds none; and when the scan is over
\* every mapping, before or after it, has exactly the messages its own checks
\* give
C17_StructuralErrorNonFatal ==
    /\ vpc = "raised" => files[vidx] \notin NonMappingFiles
    /\ \A i \in 1..Len(files) :
          (i < vidx /\ files[i] \in NonMappingFiles)
              => MessagesOf(files[i]) = <<Msg(files[i], "not_object")>>
    /\ vpc = "loop" => seen_ids = IdsOfFirst(vidx - 1)
    /\ vpc = "done" =>
          /\ vidx = Len(files) + 1
          /\ seen_ids = IdsOfFirst(Len(files))
          /\ \A n \in RecordFiles :
                MessagesOf(n) = LoopBody(n, certs_dir[n], IdsOfFirst(PositionOf(n) - 1)).msgs

\* a scan met a file that is not a mapping and then a record with a
\* violation, and reported both
C17_Witness ==
    /\ vpc = "done" /\ Len(files) = 2
    /\ files[1] \in NonMappingFiles
    /\ files[2] \in RecordFiles
    /\ Recorded(files[2], {"id_mismatch"})
    /\ Len(stdout) = 2

----------------------------------------------------------------------------
(* The records and the catalog the Importer leaves *)

\* C18: every record built from a raw record has a tooltip_legacy that is not
\* empty and that draws no message from the Validator's tooltip_legacy check
C18_ImportedTooltipValid ==
    \A i \in 1..NumImported :
        LET cert == certifications[i]
        IN /\ cert.tooltip_legacy # << >>
           /\ CheckTooltip(FileNameOf(cert), SafeLoad(cert).v).msgs = << >>

\* C19: when the Importer has stopped, by finishing or by an exception, the
\* file list of the index is the set of record files in the directory
C19_ConsistentWhenStopped ==
    ipc \in {"done", "raised"} => SeqToSet(index_file.certifications) = DOMAIN target_dir

====
